---- MODULE Spec2Model ----
(***************************************************************************)
(* Inventory ledger, stock counters and multi-location transfer of the     *)
(* grocery back office (services/inventory_service.py and                  *)
(* features/multi_location.py).                                            *)
(*                                                                         *)
(* The database is modelled by its committed content: the products table   *)
(* and the stock_movements table (the ledger).  A handler that runs to     *)
(* db.commit() publishes all its staged changes at once; a handler that    *)
(* raises runs db.rollback() and publishes nothing.                        *)
(*                                                                         *)
(* multi_location.py reads and writes Product.location_id and clones a     *)
(* product row under the same id for a new location, while                 *)
(* product_models.py declares id alone as the primary key.  Both readings  *)
(* of the schema are explored: id_is_pk = TRUE keeps one row per id and    *)
(* makes the clone's INSERT raise at commit, id_is_pk = FALSE keys the     *)
(* rows by (id, location_id) (barcode taken as NULL, so its UNIQUE         *)
(* constraint does not bite).  Every row has a location, so the            *)
(* `if product.location` test of the sync is true.                         *)
(*                                                                         *)
(* Spec         every stock operation on the tables, in any order          *)
(* SpecTransfer transfer_inventory calls with arguments and return value   *)
(* SpecConc     two sessions running transfer_inventory step by step       *)
(* SpecSessions two sessions, each a transfer or an update_stock            *)
(* SpecUpdate   update_stock calls with arguments and return value         *)
(* SpecScanner  start_scanning, stop_scanning and the scan-loop threads     *)
(*              (hardware/barcode_scanner.py)                              *)
(* SpecSummary  sales transactions and generate_daily_sales_summary        *)
(*              (services/sales_service.py)                                *)
(***************************************************************************)
EXTENDS Integers, Sequences, FiniteSets, Bags, TLC

\* ------------------------------------------------------------------ bounds
MaxStock == 2        \* largest opening stock of a row, largest value set by update_product
MaxQty == 1          \* quantities offered to the handlers range over -1..MaxQty
MaxLedger == 2       \* the ledger is explored up to this many entries
MaxCalls == 1        \* successful calls per behaviour where every call is recorded
MaxSales == 2        \* sales transactions created per behaviour
MaxThreads == 2      \* scan-loop threads started per behaviour

\* ------------------------------------------------------------- value sets
Products == {"p1", "p2"}
Stocked == {"p1"}      \* p2 is an id no row carries
Locs == {"A", "B"}
Procs == {"t1", "t2"}
NULL == -1           \* SQL NULL / Python None of a nullable numeric column
NoLoc == "-"
QtyIn == (-1)..MaxQty
CostPrices == {NULL, 2}
UpdateTypes == {"purchase", "adjustment", "return", "sale", "waste", "transfer_in", "transfer_out"}

VARIABLES
    products,    \* products table: [Products \X Locs -> row]
    ledger,      \* stock_movements table in insertion order
    id_is_pk,    \* TRUE: products.id alone is the primary key (product_models.py:49)
    replay,      \* history: per row, opening stock plus the signed ledger quantities booked on it
    last,        \* history: the last handler call, its arguments and its return value
    tx,          \* per-session position and ORM snapshot of a concurrent transfer
    sales,       \* sales_transactions with their sale_items: a bag of rows (ids left out)
    summaries,   \* daily_sales_summary table in insertion order
    lastgen,     \* history: date of the last summary call, NoDate after a transaction write
    po,          \* the purchase order po1 and its one item row (product p1)
    is_scanning, \* BarcodeScanner.is_scanning
    camera,      \* BarcodeScanner.camera: NoCamera, or a capture device opened or not
    scan_callback, \* BarcodeScanner.scan_callback
    scan_thread, \* BarcodeScanner.scan_thread: the thread started last, NoThread before
    loops,       \* per thread, its position in _scan_loop
    caller,      \* position of the thread that calls start_scanning and stop_scanning
    stopped,     \* history: stop_scanning has returned and no scan was started since
    late         \* history: a callback was delivered while stopped

stockVars == <<products, ledger, id_is_pk, replay, last, tx>>
salesVars == <<sales, summaries, lastgen>>
orderVars == <<po>>
scanVars == <<is_scanning, camera, scan_callback, scan_thread, loops, caller, stopped, late>>
vars == <<products, ledger, id_is_pk, replay, last, tx, sales, summaries, lastgen, po,
          is_scanning, camera, scan_callback, scan_thread, loops, caller, stopped, late>>

NoDate == "-"

\* the sales tables before the first sale
\* BarcodeScanner.__init__
NoCamera == "None"
NoThread == 0
NoCallback == "None"
Threads == 1..MaxThreads

InitScanner ==
    /\ is_scanning = FALSE
    /\ camera = NoCamera
    /\ scan_callback = NoCallback
    /\ scan_thread = NoThread
    /\ loops = [t \in Threads |-> "unborn"]
    /\ caller = "idle"
    /\ stopped = FALSE
    /\ late = FALSE

InitSales ==
    /\ sales = EmptyBag
    /\ summaries = <<>>
    /\ lastgen = NoDate
    /\ po = [status |-> "confirmed", quantity_received |-> 0]
    /\ InitScanner

\* ------------------------------------------------------------------- rows
NoRow == [exists |-> FALSE, current_stock |-> 0, cost_price |-> NULL, is_active |-> FALSE]

NewRow(stock, cost) ==
    [exists |-> TRUE, current_stock |-> stock, cost_price |-> cost, is_active |-> TRUE]

\* a StockMovement row (the table has no location column)
StockMovement(pid, mtype, qty, ucost, tcost, ref) ==
    [product_id |-> pid, movement_type |-> mtype, quantity |-> qty,
     unit_cost |-> ucost, total_cost |-> tcost, reference_id |-> ref]

\* an UPDATE of the newest row in place of the INSERT
AddMovementOverwrite(l, m) == IF l = <<>> THEN <<m>> ELSE [l EXCEPT ![Len(l)] = m]

\* db.add(movement) followed by the flush of the commit: one INSERT
AddMovement(l, m) == Append(l, m)

RowsOf(db, pid) == {l \in Locs : db[<<pid, l>>].exists}

Max0(n) == IF n < 0 THEN 0 ELSE n

NoCall == [op |-> "none", product_id |-> "-", src |-> NoLoc, dst |-> NoLoc,
           quantity |-> 0, movement_type |-> "-", result |-> FALSE]

Call(op, pid, src, dst, q, mtype, res) ==
    [op |-> op, product_id |-> pid, src |-> src, dst |-> dst,
     quantity |-> q, movement_type |-> mtype, result |-> res]

IdleTx == [pc |-> "idle", op |-> "none", product_id |-> "-", src |-> NoLoc, dst |-> NoLoc,
           quantity |-> 0, movement_type |-> "-",
           src_row |-> NoRow, dst_row |-> NoRow, result |-> FALSE]

\* ------------------------------------------------------------------- Init
\* One catalogued product p1, stocked at A and possibly at B; p2 is an id
\* without any row.  Every row of one product carries the same cost price.
InitRows(c, sa, sb, hasA, hasB) ==
    [k \in Products \X Locs |->
        IF k = <<"p1", "A">> /\ hasA THEN NewRow(sa, c)
        ELSE IF k = <<"p1", "B">> /\ hasB THEN NewRow(sb, c)
        ELSE NoRow]

InitDb ==
    /\ id_is_pk \in BOOLEAN
    /\ \E c \in CostPrices, hasB \in BOOLEAN :
          products = InitRows(c, MaxStock, 0, TRUE, hasB /\ ~id_is_pk)
    /\ ledger = <<>>
    /\ replay = [k \in Products \X Locs |-> products[k].current_stock]
    /\ last = NoCall

Init ==
    /\ InitDb
    /\ tx = [p \in Procs |-> IdleTx]
    /\ InitSales

\* ---------------------------------------------- InventoryService.update_stock
\* new stock level by movement type (lines 89-92)
NewStockLevel(cur, q, mtype) ==
    IF mtype \in {"purchase", "adjustment", "return"} THEN cur + q
    ELSE cur - q

\* a validation that lets the transfer types through
ValidUpdateTypeWithTransfers(mtype) == mtype \in UpdateTypes

ValidUpdateType(mtype) == mtype \in {"purchase", "adjustment", "return", "sale", "waste"}

\* product.current_stock = max(0, new_stock)
ClampedStock(cur, q, mtype) == Max0(NewStockLevel(cur, q, mtype))

\* total_cost = product.cost_price * quantity if product.cost_price else 0
UpdateTotalCost(cost, q) == IF cost = NULL \/ cost = 0 THEN 0 ELSE cost * q

\* the whole handler on database content (db, lg); loc is the row that
\* get_product_by_id(...).first() returned when several rows carry the id
UpdateStockOutcome(db, lg, pid, q, mtype, loc) ==
    IF ~db[<<pid, loc>>].exists THEN [products |-> db, ledger |-> lg, result |-> FALSE]
    ELSE IF ~ValidUpdateType(mtype) THEN [products |-> db, ledger |-> lg, result |-> FALSE]
    ELSE LET row == db[<<pid, loc>>]
             movement == StockMovement(pid, mtype, q, row.cost_price,
                                       UpdateTotalCost(row.cost_price, q), NoLoc)
         IN [products |-> [db EXCEPT ![<<pid, loc>>].current_stock =
                                          ClampedStock(row.current_stock, q, mtype)],
             ledger |-> AddMovement(lg, movement),
             result |-> TRUE]

\* the handler's effect on the tables
UpdateStockDb(pid, q, mtype, loc) ==
    /\ RowsOf(products, pid) # {} => loc \in RowsOf(products, pid)
    /\ LET out == UpdateStockOutcome(products, ledger, pid, q, mtype, loc)
       IN /\ Len(out.ledger) <= MaxLedger
          /\ products' = out.products
          /\ ledger' = out.ledger
          /\ replay' = IF out.result THEN [replay EXCEPT ![<<pid, loc>>] = @ + q] ELSE replay

UpdateStock(pid, q, mtype) ==
    /\ \E loc \in Locs : UpdateStockDb(pid, q, mtype, loc)
    /\ UNCHANGED <<id_is_pk, last, tx>>
    /\ UNCHANGED salesVars
    /\ UNCHANGED orderVars
    /\ UNCHANGED scanVars

\* one call observed from outside: arguments and return value are recorded
UpdateStockCall(pid, q, mtype) ==
    /\ \E loc \in Locs :
          /\ UpdateStockDb(pid, q, mtype, loc)
          /\ LET res == UpdateStockOutcome(products, ledger, pid, q, mtype, loc).result
             IN last' = Call("update_stock", pid, IF res THEN loc ELSE NoLoc, NoLoc, q, mtype, res)
    /\ UNCHANGED <<id_is_pk, tx>>
    /\ UNCHANGED salesVars
    /\ UNCHANGED orderVars
    /\ UNCHANGED scanVars

\* --------------------------------- MultiLocationService.transfer_inventory
\* the two ledger rows of one transfer (lines 90-115)
OutgoingMovement(pid, from, to, q, cost) ==
    StockMovement(pid, "transfer_out", -q, cost, cost * q, to)

\* an incoming row booked without a value
IncomingMovementUnvalued(pid, from, to, q, cost) ==
    StockMovement(pid, "transfer_in", q, 0, 0, from)

IncomingMovement(pid, from, to, q, cost) ==
    StockMovement(pid, "transfer_in", q, cost, cost * q, from)

\* the check off by one
InsufficientStockOffByOne(cur, q) == cur + 1 < q

\* product.current_stock < quantity: the sufficiency check of line 86
InsufficientStock(cur, q) == cur < q

\* stock rows after lines 103 and 117-144, given the source row read at line 75
\* and the destination row read at line 118
TransferRows(db, pid, from, to, q, src, dst) ==
    LET afterOut == [db EXCEPT ![<<pid, from>>] = [src EXCEPT !.current_stock = src.current_stock - q]]
    IN IF to = from
       THEN \* the destination query returns the same, already decremented, object
            [afterOut EXCEPT ![<<pid, to>>].current_stock = @ + q]
       ELSE IF dst.exists
       THEN [afterOut EXCEPT ![<<pid, to>>] = [dst EXCEPT !.current_stock = dst.current_stock + q]]
       ELSE [afterOut EXCEPT ![<<pid, to>>] = NewRow(q, src.cost_price)]

\* the commit of line 146 raises when the cloned Product row repeats the primary key
CloneConflicts(pkOnId, from, to, dst) == pkOnId /\ to # from /\ ~dst.exists

TransferOutcome(db, lg, pkOnId, from, to, pid, q) ==
    LET src == db[<<pid, from>>]
        dst == db[<<pid, to>>]
        fail == [products |-> db, ledger |-> lg, result |-> FALSE]
    IN IF ~src.exists THEN fail
       ELSE IF InsufficientStock(src.current_stock, q) THEN fail
       ELSE IF src.cost_price = NULL THEN fail      \* None * quantity raises; rollback
       ELSE IF CloneConflicts(pkOnId, from, to, dst) THEN fail   \* rollback
       ELSE [products |-> TransferRows(db, pid, from, to, q, src, dst),
             ledger |-> AddMovement(AddMovement(lg,
                            OutgoingMovement(pid, from, to, q, src.cost_price)),
                            IncomingMovement(pid, from, to, q, src.cost_price)),
             result |-> TRUE]

TransferInventoryDb(from, to, pid, q) ==
    LET out == TransferOutcome(products, ledger, id_is_pk, from, to, pid, q)
    IN /\ Len(out.ledger) <= MaxLedger
       /\ products' = out.products
       /\ ledger' = out.ledger
       /\ replay' = IF out.result
                    THEN [[replay EXCEPT ![<<pid, from>>] = @ - q] EXCEPT ![<<pid, to>>] = @ + q]
                    ELSE replay

TransferInventory(from, to, pid, q) ==
    /\ TransferInventoryDb(from, to, pid, q)
    /\ UNCHANGED <<id_is_pk, last, tx>>
    /\ UNCHANGED salesVars
    /\ UNCHANGED orderVars
    /\ UNCHANGED scanVars

\* one call observed from outside: arguments and return value are recorded
TransferInventoryCall(from, to, pid, q) ==
    /\ TransferInventoryDb(from, to, pid, q)
    /\ last' = Call("transfer_inventory", pid, from, to, q, "-",
                    TransferOutcome(products, ledger, id_is_pk, from, to, pid, q).result)
    /\ UNCHANGED <<id_is_pk, tx>>
    /\ UNCHANGED salesVars
    /\ UNCHANGED orderVars
    /\ UNCHANGED scanVars

\* ------------------------ MultiLocationService.sync_inventory_across_locations
RECURSIVE SumStock(_, _, _)
SumStock(db, pid, ls) ==
    IF ls = {} THEN 0
    ELSE LET l == CHOOSE x \in ls : TRUE
         IN db[<<pid, l>>].current_stock + SumStock(db, pid, ls \ {l})

ActiveRows(db, pid) == {l \in Locs : db[<<pid, l>>].exists /\ db[<<pid, l>>].is_active}

\* total_stock // len(products)
SyncShare(total, n) == total \div n

SyncOutcome(db, pid) ==
    LET rows == ActiveRows(db, pid)
    IN IF rows = {} THEN [products |-> db, result |-> FALSE]
       ELSE LET share == SyncShare(SumStock(db, pid, rows), Cardinality(rows))
            IN [products |-> [k \in Products \X Locs |->
                                 IF k[1] = pid /\ k[2] \in rows
                                 THEN [db[k] EXCEPT !.current_stock = share]
                                 ELSE db[k]],
                result |-> TRUE]

SyncInventoryAcrossLocations(pid) ==
    /\ products' = SyncOutcome(products, pid).products
    /\ UNCHANGED <<ledger, id_is_pk, replay, last, tx>>
    /\ UNCHANGED salesVars
    /\ UNCHANGED orderVars
    /\ UNCHANGED scanVars

\* ----------------------------------------- InventoryService.update_product
\* update_product with product_data = {'current_stock': v}
UpdateProduct(pid, v) ==
    \E loc \in RowsOf(products, pid) :
        /\ products' = [products EXCEPT ![<<pid, loc>>].current_stock = v]
        /\ UNCHANGED <<ledger, id_is_pk, replay, last, tx>>
        /\ UNCHANGED salesVars
    /\ UNCHANGED orderVars
    /\ UNCHANGED scanVars

\* ------------------------------------------------------------ specification
\* every stock operation, in any order
Next ==
    \/ \E pid \in Stocked, q \in QtyIn, mtype \in UpdateTypes : UpdateStock(pid, q, mtype)
    \/ \E from \in Locs, to \in Locs, pid \in Stocked, q \in QtyIn :
          TransferInventory(from, to, pid, q)
    \/ \E pid \in Stocked : SyncInventoryAcrossLocations(pid)
    \/ \E pid \in Stocked, v \in 0..MaxStock : UpdateProduct(pid, v)

Spec == Init /\ [][Next]_vars

\* transfer calls only, from every opening stock
InitTransfer ==
    /\ id_is_pk \in BOOLEAN
    /\ \E c \in CostPrices, cb \in CostPrices, sa \in 0..MaxStock, sb \in 0..MaxStock,
          hasB \in BOOLEAN :
          \* the row at B, where there is one, carries a cost price of its own
          products = [InitRows(c, sa, sb, TRUE, hasB /\ ~id_is_pk) EXCEPT
                         ![<<"p1", "B">>].cost_price = IF hasB /\ ~id_is_pk THEN cb ELSE NULL]
    /\ ledger = <<>>
    /\ replay = [k \in Products \X Locs |-> products[k].current_stock]
    /\ last = NoCall
    /\ tx = [p \in Procs |-> IdleTx]
    /\ InitSales

NextTransfer ==
    \E from \in Locs, to \in Locs, pid \in Products, q \in QtyIn :
        TransferInventoryCall(from, to, pid, q)

SpecTransfer == InitTransfer /\ [][NextTransfer]_vars

\* update_stock calls only
NextUpdate ==
    \E pid \in Products, q \in QtyIn, mtype \in UpdateTypes :
        UpdateStockCall(pid, q, mtype) /\ Len(ledger') <= MaxCalls

SpecUpdate == Init /\ [][NextUpdate]_vars

\* ------------------------------------------- concurrent transfer sessions
\* Each request runs transfer_inventory in its own session.  The source row is
\* read at line 75 without a lock; the autoflush before the destination query
\* of line 118 writes the two movements and UPDATEs the source row with the
\* value computed from that read, holding the row lock until commit or
\* rollback; the destination query (READ COMMITTED) sees committed rows.
LockedRows(p) ==
    IF tx[p].pc = "flushed" THEN {<<tx[p].product_id, tx[p].src>>} ELSE {}

LockedByOther(p, k) == \E o \in Procs \ {p} : k \in LockedRows(o)

\* the flush in a session that commits every statement
VisibleAtFlushAutocommit(db, t) ==
    [db EXCEPT ![<<t.product_id, t.src>>].current_stock = t.src_row.current_stock - t.quantity]

\* the flush of a session writes inside its open transaction: the committed
\* tables, which other sessions read, stay as they are
VisibleAtFlush(db, t) == db

\* a rollback that leaves the flushed source decrement behind
RolledBackPartial(db, t) ==
    [db EXCEPT ![<<t.product_id, t.src>>].current_stock = t.src_row.current_stock - t.quantity]

\* db.rollback() of line 152 discards everything the session flushed
RolledBack(db, t) == db

\* lines 75-88: read the source row and check it; line 96 raises on a NULL cost
TxBegin(p, from, to, pid, q) ==
    /\ tx[p].pc = "idle"
    /\ LET src == products[<<pid, from>>]
           ok == src.exists /\ ~InsufficientStock(src.current_stock, q) /\ src.cost_price # NULL
       IN tx' = [tx EXCEPT ![p] = [pc |-> IF ok THEN "checked" ELSE "done",
                                   op |-> "transfer_inventory",
                                   product_id |-> pid, src |-> from, dst |-> to,
                                   quantity |-> q, movement_type |-> "-",
                                   src_row |-> src, dst_row |-> NoRow,
                                   result |-> FALSE]]
    /\ UNCHANGED <<products, ledger, id_is_pk, replay, last>>
    /\ UNCHANGED salesVars
    /\ UNCHANGED orderVars
    /\ UNCHANGED scanVars

\* lines 100-123: autoflush (takes the source row lock), then read the destination
TxFlush(p) ==
    /\ tx[p].op = "transfer_inventory"
    /\ tx[p].pc = "checked"
    /\ ~LockedByOther(p, <<tx[p].product_id, tx[p].src>>)
    /\ tx' = [tx EXCEPT ![p].pc = "flushed",
                        ![p].dst_row = products[<<tx[p].product_id, tx[p].dst>>]]
    /\ products' = VisibleAtFlush(products, tx[p])
    /\ UNCHANGED <<ledger, id_is_pk, replay, last>>
    /\ UNCHANGED salesVars
    /\ UNCHANGED orderVars
    /\ UNCHANGED scanVars

\* lines 125-153: write the destination row and commit, or raise and roll back
TxCommit(p) ==
    /\ tx[p].op = "transfer_inventory"
    /\ tx[p].pc = "flushed"
    /\ ~LockedByOther(p, <<tx[p].product_id, tx[p].dst>>)
    /\ LET t == tx[p]
           conflict == \/ CloneConflicts(id_is_pk, t.src, t.dst, t.dst_row)
                       \/ ~t.dst_row.exists /\ products[<<t.product_id, t.dst>>].exists
       IN IF conflict
          THEN /\ tx' = [tx EXCEPT ![p].pc = "done"]
               /\ products' = RolledBack(products, t)
               /\ UNCHANGED <<ledger, replay>>
          ELSE /\ products' = TransferRows(products, t.product_id, t.src, t.dst, t.quantity,
                                           t.src_row, t.dst_row)
               /\ ledger' = AddMovement(AddMovement(ledger,
                               OutgoingMovement(t.product_id, t.src, t.dst, t.quantity,
                                                t.src_row.cost_price)),
                               IncomingMovement(t.product_id, t.src, t.dst, t.quantity,
                                                t.src_row.cost_price))
               /\ replay' = [[replay EXCEPT ![<<t.product_id, t.src>>] = @ - t.quantity]
                                     EXCEPT ![<<t.product_id, t.dst>>] = @ + t.quantity]
               /\ tx' = [tx EXCEPT ![p].pc = "done", ![p].result = TRUE]
    /\ UNCHANGED <<id_is_pk, last>>
    /\ UNCHANGED salesVars
    /\ UNCHANGED orderVars
    /\ UNCHANGED scanVars

\* update_stock in a session of its own.  Lines 84-111: read the row, leave on
\* an unknown product or type, else stage the new counter and the movement
UsBegin(p, pid, q, mtype) ==
    /\ tx[p].pc = "idle"
    /\ \E loc \in Locs :
          /\ RowsOf(products, pid) # {} => loc \in RowsOf(products, pid)
          /\ LET row == products[<<pid, loc>>]
                 ok == row.exists /\ ValidUpdateType(mtype)
             IN tx' = [tx EXCEPT ![p] = [pc |-> IF ok THEN "staged" ELSE "done",
                                         op |-> "update_stock",
                                         product_id |-> pid, src |-> loc, dst |-> NoLoc,
                                         quantity |-> q, movement_type |-> mtype,
                                         src_row |-> row, dst_row |-> NoRow,
                                         result |-> FALSE]]
    /\ UNCHANGED <<products, ledger, id_is_pk, replay, last>>
    /\ UNCHANGED salesVars
    /\ UNCHANGED orderVars
    /\ UNCHANGED scanVars

\* line 112: the commit flushes the UPDATE of the counter and the INSERT of the
\* movement and publishes both
UsCommit(p) ==
    /\ tx[p].op = "update_stock"
    /\ tx[p].pc = "staged"
    /\ ~LockedByOther(p, <<tx[p].product_id, tx[p].src>>)
    /\ LET t == tx[p]
       IN /\ products' = [products EXCEPT ![<<t.product_id, t.src>>].current_stock =
                             ClampedStock(t.src_row.current_stock, t.quantity, t.movement_type)]
          /\ ledger' = AddMovement(ledger,
                          StockMovement(t.product_id, t.movement_type, t.quantity,
                                        t.src_row.cost_price,
                                        UpdateTotalCost(t.src_row.cost_price, t.quantity), NoLoc))
          /\ replay' = [replay EXCEPT ![<<t.product_id, t.src>>] = @ + t.quantity]
          /\ tx' = [tx EXCEPT ![p].pc = "done", ![p].result = TRUE]
    /\ UNCHANGED <<id_is_pk, last>>
    /\ UNCHANGED salesVars
    /\ UNCHANGED orderVars
    /\ UNCHANGED scanVars

\* two sessions transfer out of the same row (p1 at A), each once
ConcSource == "A"

InitConc ==
    /\ id_is_pk \in BOOLEAN
    /\ \E hasB \in BOOLEAN, sb \in 0..MaxStock :
          products = InitRows(2, MaxStock, sb, TRUE, hasB /\ ~id_is_pk)
    /\ ledger = <<>>
    /\ replay = [k \in Products \X Locs |-> products[k].current_stock]
    /\ last = NoCall
    /\ tx = [p \in Procs |-> IdleTx]
    /\ InitSales

NextConc ==
    \E p \in Procs :
        \/ \E to \in Locs \ {ConcSource}, q \in 1..MaxStock : TxBegin(p, ConcSource, to, "p1", q)
        \/ TxFlush(p)
        \/ TxCommit(p)

SpecConc == InitConc /\ [][NextConc]_vars

\* two sessions, each running one transfer or one update_stock
SessionTypes == {"purchase", "sale", "transfer_in"}

NextSessions ==
    \E p \in Procs :
        \/ \E to \in Locs \ {ConcSource}, q \in 1..MaxQty : TxBegin(p, ConcSource, to, "p1", q)
        \/ TxFlush(p)
        \/ TxCommit(p)
        \/ \E q \in 1..MaxQty, mtype \in SessionTypes : UsBegin(p, "p1", q, mtype)
        \/ UsCommit(p)

SpecSessions == InitConc /\ [][NextSessions]_vars


\* ================================================================ properties
OnHandIn(db, k) == IF db[k].exists THEN db[k].current_stock ELSE 0

OnHand(k) == OnHandIn(products, k)

RECURSIVE TotalIn(_, _, _)
TotalIn(db, pid, ls) ==
    IF ls = {} THEN 0
    ELSE LET l == CHOOSE x \in ls : TRUE
         IN OnHandIn(db, <<pid, l>>) + TotalIn(db, pid, ls \ {l})

IsPrefix(a, b) == Len(a) <= Len(b) /\ SubSeq(b, 1, Len(a)) = a

Inflows == {"purchase", "return", "transfer_in"}
Outflows == {"sale", "waste", "transfer_out"}

\* C1: for every (product, location) the signed sum of the ledger quantities
\* booked on the row (from the opening stock on) equals its current_stock.
C1_ReplayEqualsStock == \A k \in Products \X Locs : replay[k] = OnHand(k)

\* C2: a transfer call that returns True with quantity Q lowers the source's
\* stock by Q, raises the destination's by Q and keeps the product's total.
C2_TransferMovesQ ==
    [][(last'.op = "transfer_inventory" /\ last'.result) =>
        LET pid == last'.product_id
            from == <<last'.product_id, last'.src>>
            to == <<last'.product_id, last'.dst>>
            q == last'.quantity
        IN /\ OnHandIn(products', from) = OnHand(from) - q
           /\ OnHandIn(products', to) = OnHand(to) + q
           /\ TotalIn(products', pid, Locs) = TotalIn(products, pid, Locs)]_vars

\* C3: a successful transfer appends exactly two entries, a transfer_out and a
\* transfer_in, with one shared reference id, opposite quantities of equal
\* magnitude, booked on two different locations.
C3_PairedEntries ==
    [][(last'.op = "transfer_inventory" /\ last'.result) =>
        /\ Len(ledger') = Len(ledger) + 2
        /\ IsPrefix(ledger, ledger')
        /\ LET out == ledger'[Len(ledger) + 1]
               inc == ledger'[Len(ledger) + 2]
           IN /\ out.movement_type = "transfer_out"
              /\ inc.movement_type = "transfer_in"
              /\ out.reference_id = inc.reference_id
              /\ out.quantity = - inc.quantity
              /\ last'.src # last'.dst]_vars

\* C4: a transfer that asks for more than the source's current stock returns
\* False, writes no ledger entry and leaves every stock row as it was.
C4_InsufficientTransferFails ==
    [][(/\ last'.op = "transfer_inventory"
        /\ last'.quantity > OnHand(<<last'.product_id, last'.src>>)) =>
        /\ ~last'.result
        /\ ledger' = ledger
        /\ products' = products]_vars

\* C4 witness: after a successful transfer, a second one that exceeds the
\* remaining stock of an existing, priced source row has been refused.
C4_Witness ==
    /\ last.op = "transfer_inventory"
    /\ ~last.result
    /\ last.src # last.dst
    /\ products[<<last.product_id, last.src>>].exists
    /\ products[<<last.product_id, last.src>>].cost_price # NULL
    /\ products[<<last.product_id, last.dst>>].exists
    /\ last.quantity > products[<<last.product_id, last.src>>].current_stock
    /\ Len(ledger) = 2

\* C5: a transfer with quantity <= 0 returns False, writes no ledger entry and
\* leaves every stock counter unchanged.
C5_NonPositiveTransferFails ==
    [][(last'.op = "transfer_inventory" /\ last'.quantity <= 0) =>
        /\ ~last'.result
        /\ ledger' = ledger
        /\ products' = products]_vars

\* C6: a transfer whose source and destination are the same location returns
\* False, writes no ledger entry and changes no stock counter.
C6_SelfTransferRejected ==
    [][(last'.op = "transfer_inventory" /\ last'.src = last'.dst) =>
        /\ ~last'.result
        /\ ledger' = ledger
        /\ products' = products]_vars

RECURSIVE SucceededQty(_)
SucceededQty(ps) ==
    IF ps = {} THEN 0
    ELSE LET p == CHOOSE x \in ps : TRUE
         IN (IF tx[p].result THEN tx[p].quantity ELSE 0) + SucceededQty(ps \ {p})

C8_StockChangeHasMovement ==
    [][(\E k \in Products \X Locs : OnHandIn(products', k) # OnHand(k)) =>
        Len(ledger') > Len(ledger)]_vars

\* C9: the ledger is append-only: every step leaves the committed entries
\* unchanged and in place, so the earlier ledger is a prefix of the later one.
C9_AppendOnly == [][IsPrefix(ledger, ledger')]_vars

\* C9 witness: a second operation has committed on top of an earlier entry.
C9_Witness ==
    /\ Len(ledger) >= 2
    /\ ledger[1].movement_type = "purchase"
    /\ ledger[2].movement_type = "sale"

\* C10: every ledger entry's quantity has the sign of its movement type:
\* purchase, return, transfer_in >= 0 and sale, waste, transfer_out <= 0.
C10_SignMatchesType ==
    \A i \in 1..Len(ledger) :
        /\ ledger[i].movement_type \in Inflows => ledger[i].quantity >= 0
        /\ ledger[i].movement_type \in Outflows => ledger[i].quantity <= 0

\* C11: a request to record a sale with a positive quantity returns False,
\* writes no ledger entry and leaves the product's stock unchanged.
C11_PositiveSaleRejected ==
    [][(/\ last'.op = "update_stock"
        /\ last'.movement_type = "sale"
        /\ last'.quantity > 0) =>
        /\ ~last'.result
        /\ ledger' = ledger
        /\ products' = products]_vars

QueryLimit == 100    \* default `limit` of get_transactions_by_date_range

Dates == {"D1", "D2"}
NoMethod == "NULL"                 \* payment_method is a nullable column
PaymentMethods == {"cash", "card", "mobile", NoMethod}
Amounts == {1999, 5000, 7000}      \* total_amount in cents (NUMERIC(10,2))
NoProduct == "-"                   \* top_selling_product_id None
IdOrder == <<"p1", "p2">>          \* the product ids in ascending order

\* the sale_items of one transaction: at most one line per product
ItemLine == [product_id : Products, quantity : 1..MaxQty]
ItemSets == {s \in SUBSET ItemLine : \A a, b \in s : a.product_id = b.product_id => a = b}

\* a sales_transactions row together with its sale_items
SaleRow(date, ret, method, amount, items) ==
    [transaction_date |-> date, is_return |-> ret, payment_method |-> method,
     total_amount |-> amount, items |-> items]

\* the row every earlier sale of a busy day looks like
BulkSale == SaleRow("D1", FALSE, "cash", 5000, {[product_id |-> "p1", quantity |-> 1]})

\* create_transaction, lines 23-64: one transaction row and its item rows are
\* inserted and committed; transaction_date is the server's date `date`
CreateTransaction(date, ret, method, amount, items) ==
    /\ sales' = sales (+) SetToBag({SaleRow(date, ret, method, amount, items)})
    /\ lastgen' = NoDate
    /\ UNCHANGED summaries
    /\ UNCHANGED stockVars
    /\ UNCHANGED orderVars
    /\ UNCHANGED scanVars

\* --------------------------------------- SalesService: the summary of a day
\* the WHERE clause of lines 147-152: the date's transactions, returns left out
Matching(table, date) ==
    LET rows == {r \in BagToSet(table) : r.transaction_date = date /\ ~r.is_return}
    IN [r \in rows |-> table[r]]

Min(a, b) == IF a <= b THEN a ELSE b

\* every order in which the elements of S can come
Orderings(S) == {f \in [1..Cardinality(S) -> S] : \A i, j \in 1..Cardinality(S) : f[i] = f[j] => i = j}

RECURSIVE Total(_, _)
Total(f, S) ==
    IF S = {} THEN 0
    ELSE LET x == CHOOSE y \in S : TRUE
         IN f[x] + Total(f, S \ {x})

\* LIMIT: the bags left of m when `cut` of its rows are dropped
Kept(m, cut) ==
    LET rows == DOMAIN m
        drops == {d \in [rows -> 0..cut] :
                     /\ \A r \in rows : d[r] <= m[r]
                     /\ Total(d, rows) = cut}
    IN {[r \in {x \in rows : m[x] > d[x]} |-> m[r] - d[r]] : d \in drops}

\* get_transactions_by_date_range, lines 144-153.  transaction_date is a Date
\* column, so ORDER BY transaction_date DESC ties on every selected row: which
\* rows LIMIT keeps and in which order they come is the database's choice.  A
\* result is written in runs <<[row, n], ...>> of n equal rows; the sums and
\* the first appearance of each product, all the caller uses, depend on
\* nothing else.
QueryResults(table, date) ==
    LET m == Matching(table, date)
        kept == Kept(m, BagCardinality(m) - Min(BagCardinality(m), QueryLimit))
    IN UNION {{[i \in 1..Cardinality(BagToSet(b)) |-> [row |-> o[i], n |-> b[o[i]]]] :
                 o \in Orderings(BagToSet(b))} : b \in kept}

\* get_transaction_items, lines 76-78, for every run of a result: the item
\* rows of a transaction come in an order the database chooses (no ORDER BY)
ItemResults(res) ==
    LET all == UNION {Orderings(res[i].row.items) : i \in 1..Len(res)}
    IN {f \in [1..Len(res) -> all] : \A i \in 1..Len(res) : f[i] \in Orderings(res[i].row.items)}

RECURSIVE SumSeq(_)
SumSeq(s) == IF s = <<>> THEN 0 ELSE Head(s) + SumSeq(Tail(s))

\* sum(item.quantity for item in ...), line 183
ItemQuantity(lines) == SumSeq([i \in 1..Len(lines) |-> lines[i].quantity])

\* lines 195-198: product_sales[pid] += q, a new key going to the end of the dict
AddSale(d, pid, q) ==
    IF \E i \in 1..Len(d) : d[i].product_id = pid
    THEN LET i == CHOOSE j \in 1..Len(d) : d[j].product_id = pid
         IN [d EXCEPT ![i].quantity = @ + q]
    ELSE Append(d, [product_id |-> pid, quantity |-> q])

\* line 194 for n equal transactions whose items come as `lines`
RECURSIVE AddLines(_, _, _)
AddLines(d, lines, n) ==
    IF lines = <<>> THEN d
    ELSE AddLines(AddSale(d, Head(lines).product_id, n * Head(lines).quantity), Tail(lines), n)

\* lines 192-198: the dict after the runs i..Len(res)
RECURSIVE ProductSales(_, _, _, _)
ProductSales(d, res, ord, i) ==
    IF i > Len(res) THEN d
    ELSE ProductSales(AddLines(d, ord[i], res[i].n), res, ord, i + 1)

\* max(product_sales.items(), key=lambda x: x[1])[0], line 201: the first key,
\* in the dict's order, among those of the largest value; None on an empty dict
TopSelling(d) ==
    IF d = <<>> THEN NoProduct
    ELSE LET best == CHOOSE i \in 1..Len(d) :
                        /\ \A j \in 1..Len(d) : d[j].quantity <= d[i].quantity
                        /\ \A j \in 1..(i - 1) : d[j].quantity < d[i].quantity
         IN d[best].product_id

\* a NUMERIC(10,2) column keeps the quotient rounded to the cent, half up
RoundDiv(a, n) == (2 * a + n) \div (2 * n)

\* an average that is not divided
AverageTransactionValueUndivided(revenue, count) == revenue

\* line 186: total_revenue / total_transactions if total_transactions > 0 else 0
AverageTransactionValue(revenue, count) ==
    IF count > 0 THEN RoundDiv(revenue, count) ELSE 0

\* sum(t.total_amount for t in transactions if t.payment_method == method)
PaidBy(res, method) ==
    SumSeq([i \in 1..Len(res) |->
              IF res[i].row.payment_method = method THEN res[i].n * res[i].row.total_amount ELSE 0])

\* lines 180-201: the computed fields
SummaryOf(res, ord) ==
    LET count == SumSeq([i \in 1..Len(res) |-> res[i].n])
        revenue == SumSeq([i \in 1..Len(res) |-> res[i].n * res[i].row.total_amount])
    IN [total_transactions |-> count,
        total_revenue |-> revenue,
        total_items_sold |-> SumSeq([i \in 1..Len(res) |-> res[i].n * ItemQuantity(ord[i])]),
        average_transaction_value |-> AverageTransactionValue(revenue, count),
        cash_sales |-> PaidBy(res, "cash"),
        card_sales |-> PaidBy(res, "card"),
        top_selling_product_id |-> TopSelling(ProductSales(<<>>, res, ord, 1))]

SummaryRow(id, date, v) ==
    [id |-> id, date |-> date,
     total_transactions |-> v.total_transactions,
     total_revenue |-> v.total_revenue,
     total_items_sold |-> v.total_items_sold,
     average_transaction_value |-> v.average_transaction_value,
     cash_sales |-> v.cash_sales,
     card_sales |-> v.card_sales,
     top_selling_product_id |-> v.top_selling_product_id]

\* a lookup that finds nothing
GetDailySalesSummaryBlind(rows, date) == 0

\* get_daily_sales_summary, lines 165-169: the position of the first row of
\* the date, 0 for None
GetDailySalesSummary(rows, date) ==
    IF \E i \in 1..Len(rows) : rows[i].date = date
    THEN CHOOSE i \in 1..Len(rows) :
            /\ rows[i].date = date
            /\ \A j \in 1..(i - 1) : rows[j].date # date
    ELSE 0

\* lines 204-225: overwrite the row found, or add a row with a fresh id
UpsertSummary(rows, found, date, v) ==
    IF found # 0
    THEN [rows EXCEPT ![found] = SummaryRow(@.id, @.date, v)]
    ELSE Append(rows, SummaryRow(Len(rows) + 1, date, v))

\* generate_daily_sales_summary, lines 171-228
GenerateDailySalesSummary(date) ==
    /\ \E res \in QueryResults(sales, date) :
          \E ord \in ItemResults(res) :
              summaries' = UpsertSummary(summaries, GetDailySalesSummary(summaries, date),
                                         date, SummaryOf(res, ord))
    /\ lastgen' = date
    /\ UNCHANGED sales
    /\ UNCHANGED stockVars
    /\ UNCHANGED orderVars
    /\ UNCHANGED scanVars

\* the stock tables the sales specifications start from and never touch
InitStockIdle ==
    /\ id_is_pk = TRUE
    /\ products = InitRows(2, MaxStock, 0, TRUE, FALSE)
    /\ ledger = <<>>
    /\ replay = [k \in Products \X Locs |-> products[k].current_stock]
    /\ last = NoCall
    /\ tx = [p \in Procs |-> IdleTx]

\* the sales of a day that already has QueryLimit equal sales, or none
InitSummary ==
    /\ InitStockIdle
    /\ sales \in {EmptyBag, [r \in {BulkSale} |-> QueryLimit]}
    /\ summaries = <<>>
    /\ lastgen = NoDate
    /\ po = [status |-> "confirmed", quantity_received |-> 0]
    /\ InitScanner

\* transactions created beyond the opening ones
Created(table) == BagCardinality(table) - CopiesIn(BulkSale, table)

NextSummary ==
    \/ \E date \in Dates, ret \in BOOLEAN, items \in ItemSets :
          /\ Created(sales) < MaxSales
          /\ CreateTransaction(date, ret, "cash", 7000, items)
    \/ \E date \in Dates : GenerateDailySalesSummary(date)

SpecSummary == InitSummary /\ [][NextSummary]_vars

\* one day's sales paid in every way
InitPayments ==
    /\ InitStockIdle
    /\ InitSales

NextPayments ==
    \/ \E ret \in BOOLEAN, method \in PaymentMethods, amount \in Amounts :
          /\ BagCardinality(sales) < MaxSales
          /\ CreateTransaction("D1", ret, method, amount, {[product_id |-> "p1", quantity |-> 1]})
    \/ GenerateDailySalesSummary("D1")

SpecPayments == InitPayments /\ [][NextPayments]_vars

\* the stored summary row of a date (read only where one exists)
SummaryFor(date) == summaries[GetDailySalesSummary(summaries, date)]

\* line-item quantity a transaction row holds of product pid, 0 without a line
QuantityOf(row, pid) ==
    Total([l \in row.items |-> IF l.product_id = pid THEN l.quantity ELSE 0], row.items)

\* C13: two summary calls for the same date in a row, with no transaction
\* written between them, yield identical summaries: the second call leaves
\* every field of the stored (and returned) row as the first call set it.
C13_SummaryIdempotent ==
    [][(lastgen # NoDate /\ lastgen' = lastgen) => summaries' = summaries]_vars

\* C14: there is at most one summary row per date; a row, once inserted, keeps
\* its id and its date, so a later call for its date overwrites that row and
\* adds none.
C14_OneSummaryPerDate ==
    [][/\ \A date \in Dates :
             Cardinality({i \in 1..Len(summaries') : summaries'[i].date = date}) <= 1
       /\ \A i, j \in 1..Len(summaries') : summaries'[i].id = summaries'[j].id => i = j
       /\ Len(summaries') >= Len(summaries)
       /\ \A i \in 1..Len(summaries) :
             /\ summaries'[i].id = summaries[i].id
             /\ summaries'[i].date = summaries[i].date]_vars

\* C14 witness: the row of D1 was inserted first, the row of D2 after it, and
\* the latest call was again for D1: it found the row of D1 and filled it
\* with the day's QueryLimit sales.
C14_Witness ==
    /\ lastgen = "D1"
    /\ Len(summaries) = 2
    /\ summaries[1].date = "D1" /\ summaries[1].id = 1
    /\ summaries[2].date = "D2"
    /\ summaries[1].total_transactions = QueryLimit

\* C15: right after a summary call for date D the row of D counts all
\* non-return transactions dated D, sums their total_amount and sums the
\* quantities of all their line items; returns and other dates add nothing.
C15_TotalsOverAllOfTheDay ==
    lastgen # NoDate =>
        LET m == Matching(sales, lastgen)
            rows == DOMAIN m
        IN /\ SummaryFor(lastgen).total_transactions = Total(m, rows)
           /\ SummaryFor(lastgen).total_revenue =
                 Total([r \in rows |-> m[r] * r.total_amount], rows)
           /\ SummaryFor(lastgen).total_items_sold =
                 Total([r \in rows |->
                          m[r] * Total([l \in r.items |-> l.quantity], r.items)], rows)

\* C16: right after a summary call the payment buckets of the row (cash_sales
\* and card_sales; the row has no other bucket, none for unknown methods) add
\* up to its total_revenue.
C16_BucketsSumToRevenue ==
    lastgen # NoDate =>
        SummaryFor(lastgen).cash_sales + SummaryFor(lastgen).card_sales
            = SummaryFor(lastgen).total_revenue

\* C17: right after a summary call the top-selling product of the row is the
\* product of the largest summed line-item quantity over the day's non-return
\* transactions, the lowest id among several such, and none without a line.
C17_TopSellingLowestId ==
    lastgen # NoDate =>
        LET m == Matching(sales, lastgen)
            sold == [p \in Products |-> Total([r \in DOMAIN m |-> m[r] * QuantityOf(r, p)], DOMAIN m)]
            lines == \E r \in DOMAIN m : r.items # {}
            best == CHOOSE i \in 1..Len(IdOrder) :
                       /\ \A p \in Products : sold[p] <= sold[IdOrder[i]]
                       /\ \A j \in 1..(i - 1) : sold[IdOrder[j]] < sold[IdOrder[i]]
        IN SummaryFor(lastgen).top_selling_product_id =
               IF lines THEN IdOrder[best] ELSE NoProduct

\* a session p finishes in this step
Finishes(p) == tx[p].pc # "done" /\ tx'[p].pc = "done"

\* C18: the ledger write and the counter update of one operation become
\* visible together or not at all: every step that changes the committed ledger
\* or a committed counter is the commit of one session that succeeds, and it
\* publishes that session's movement(s) and counter write(s) in the same step
\* (update_stock: one movement and the clamped counter; transfer: the outgoing
\* and the incoming movement, the source decrement and the destination credit).
C18_LedgerAndCounterTogether ==
    [][(products' # products \/ ledger' # ledger) =>
        \E p \in Procs :
            LET t == tx[p]
                src == <<t.product_id, t.src>>
                dst == <<t.product_id, t.dst>>
            IN /\ Finishes(p)
               /\ tx'[p].result
               /\ IsPrefix(ledger, ledger')
               /\ IF t.op = "update_stock"
                  THEN /\ Len(ledger') = Len(ledger) + 1
                       /\ ledger'[Len(ledger')].movement_type = t.movement_type
                       /\ ledger'[Len(ledger')].quantity = t.quantity
                       /\ products'[src].current_stock =
                             Max0(IF t.movement_type \in {"purchase", "adjustment", "return"}
                                  THEN t.src_row.current_stock + t.quantity
                                  ELSE t.src_row.current_stock - t.quantity)
                       /\ \A k \in (Products \X Locs) \ {src} : products'[k] = products[k]
                  ELSE /\ Len(ledger') = Len(ledger) + 2
                       /\ ledger'[Len(ledger) + 1].movement_type = "transfer_out"
                       /\ ledger'[Len(ledger) + 2].movement_type = "transfer_in"
                       /\ products'[src].current_stock = t.src_row.current_stock - t.quantity
                       /\ products'[dst].exists
                       /\ products'[dst].current_stock =
                             (IF t.dst_row.exists THEN t.dst_row.current_stock ELSE 0) + t.quantity
                       /\ \A k \in (Products \X Locs) \ {src, dst} : products'[k] = products[k]]_vars

\* C18 witness: an update_stock session and a transfer session have both
\* committed; the ledger holds the one movement of the first and the two of the
\* second.
C18_Witness ==
    /\ \E p \in Procs : tx[p].pc = "done" /\ tx[p].result /\ tx[p].op = "update_stock"
    /\ \E p \in Procs : tx[p].pc = "done" /\ tx[p].result /\ tx[p].op = "transfer_inventory"
    /\ Len(ledger) = 3

\* C19: a transfer that fails part-way, after it has staged its writes, leaves
\* the committed ledger and every committed counter exactly as they were and
\* reports failure; no earlier ledger entry is removed.
C19_FailedTransferRestores ==
    [][\A p \in Procs :
          (Finishes(p) /\ tx[p].op = "transfer_inventory" /\ ~tx'[p].result) =>
              /\ products' = products
              /\ ledger' = ledger]_vars

\* C19 witness: a transfer passed the stock check, flushed its source
\* decrement, then failed at commit and returned False.
C19_Witness ==
    \E p \in Procs :
        /\ tx[p].pc = "done"
        /\ tx[p].op = "transfer_inventory"
        /\ ~tx[p].result
        /\ tx[p].src_row.exists
        /\ tx[p].src_row.cost_price # NULL
        /\ ~InsufficientStock(tx[p].src_row.current_stock, tx[p].quantity)

\* C20: a transfer of Q from a priced source row with at least Q on hand to a
\* different location that has no row for the product succeeds; afterwards the
\* destination holds exactly Q and the source row is still present with its
\* stock reduced by Q.
C20_CloneDestination ==
    [][(/\ last'.op = "transfer_inventory"
        /\ last'.src # last'.dst
        /\ last'.quantity > 0
        /\ products[<<last'.product_id, last'.src>>].exists
        /\ products[<<last'.product_id, last'.src>>].cost_price # NULL
        /\ products[<<last'.product_id, last'.src>>].current_stock >= last'.quantity
        /\ ~products[<<last'.product_id, last'.dst>>].exists) =>
        /\ last'.result
        /\ OnHandIn(products', <<last'.product_id, last'.dst>>) = last'.quantity
        /\ products'[<<last'.product_id, last'.dst>>].exists
        /\ products'[<<last'.product_id, last'.src>>].exists
        /\ products'[<<last'.product_id, last'.src>>].current_stock =
              products[<<last'.product_id, last'.src>>].current_stock - last'.quantity]_vars

Abs(n) == IF n < 0 THEN -n ELSE n

\* C21: every ledger entry that carries a unit cost has
\* total_cost = unit_cost x |quantity|, so its total cost is never negative.
C21_TotalCostIsUnitTimesMagnitude ==
    \A i \in 1..Len(ledger) :
        ledger[i].unit_cost # NULL =>
            /\ ledger[i].total_cost = ledger[i].unit_cost * Abs(ledger[i].quantity)
            /\ ledger[i].total_cost >= 0

\* C22: the transfer_out and the transfer_in entry of one successful transfer
\* record the same unit cost, the cost price the source row carried when the
\* transfer was called.
C22_SameUnitCost ==
    [][(last'.op = "transfer_inventory" /\ last'.result) =>
        /\ Len(ledger') = Len(ledger) + 2
        /\ ledger'[Len(ledger) + 1].movement_type = "transfer_out"
        /\ ledger'[Len(ledger) + 2].movement_type = "transfer_in"
        /\ ledger'[Len(ledger) + 1].unit_cost = products[<<last'.product_id, last'.src>>].cost_price
        /\ ledger'[Len(ledger) + 2].unit_cost = products[<<last'.product_id, last'.src>>].cost_price]_vars

\* C22 witness: a transfer has succeeded from a priced row into an existing
\* row that carries another cost price.
C22_Witness ==
    /\ last.op = "transfer_inventory"
    /\ last.result
    /\ last.src # last.dst
    /\ last.quantity > 0
    /\ Len(ledger) = 2
    /\ products[<<last.product_id, last.dst>>].exists
    /\ products[<<last.product_id, last.dst>>].cost_price
          # products[<<last.product_id, last.src>>].cost_price

\* C23: right after a summary call for a date without non-return transactions
\* the row of the date exists with total_transactions 0, total_revenue 0,
\* average_transaction_value 0 and no top-selling product; for any other date
\* its average_transaction_value is total_revenue divided by
\* total_transactions, to the cent the column keeps.
C23_AverageOrZero ==
    lastgen # NoDate =>
        /\ GetDailySalesSummary(summaries, lastgen) # 0
        /\ LET row == SummaryFor(lastgen)
           IN IF DOMAIN Matching(sales, lastgen) = {}
              THEN /\ row.total_transactions = 0
                   /\ row.total_revenue = 0
                   /\ row.average_transaction_value = 0
                   /\ row.top_selling_product_id = NoProduct
              ELSE /\ row.total_transactions > 0
                   /\ 2 * Abs(row.average_transaction_value * row.total_transactions
                              - row.total_revenue) <= row.total_transactions

\* C23 witness: the day's only transaction is a return and the summary call
\* for the day has just stored the empty row.
C23_Witness ==
    /\ lastgen = "D1"
    /\ DOMAIN Matching(sales, "D1") = {}
    /\ \E r \in DOMAIN sales : r.transaction_date = "D1" /\ r.is_return
    /\ SummaryFor("D1").total_transactions = 0

\* ------------------------------------ InventoryService.get_stock_movements
MovementLimit == 100   \* default `limit` of get_stock_movements
Days == {1, 2}         \* created_at is a Date column: the server's day at the INSERT
NoDay == 0             \* start_date / end_date None
NoFilter == "None"     \* product_id / movement_type None

\* a stock_movements row with the created_at the server gave it
Stamped(m, day) == m @@ [created_at |-> day]

\* update_stock on day `day` (the days of a ledger never go back)
UpdateStockOn(day, pid, q, mtype) ==
    /\ ledger # <<>> => ledger[Len(ledger)].created_at <= day
    /\ Len(ledger) < MaxLedger
    /\ \E loc \in Locs :
          LET out == UpdateStockOutcome(products, ledger, pid, q, mtype, loc)
          IN /\ out.result
             /\ products' = out.products
             /\ ledger' = Append(ledger, Stamped(out.ledger[Len(out.ledger)], day))
             /\ replay' = [replay EXCEPT ![<<pid, loc>>] = @ + q]
    /\ UNCHANGED <<id_is_pk, last, tx>>
    /\ UNCHANGED salesVars
    /\ UNCHANGED orderVars
    /\ UNCHANGED scanVars

\* lines 130-137: the filters that were given
MovementMatches(m, pid, mtype, start, end) ==
    /\ pid # NoFilter => m.product_id = pid
    /\ mtype # NoFilter => m.movement_type = mtype
    /\ start # NoDay => m.created_at >= start
    /\ end # NoDay => m.created_at <= end

\* order_by(desc(StockMovement.created_at)), line 139: newest day first, rows
\* of one day in the order the database chooses
OrderedByCreatedAt(s) == \A i, j \in 1..Len(s) : i < j => s[i].created_at >= s[j].created_at

\* get_stock_movements, lines 122-139: every list the query can return
StockMovementResults(lg, pid, mtype, start, end) ==
    LET hits == {i \in 1..Len(lg) : MovementMatches(lg[i], pid, mtype, start, end)}
        lists == {[k \in 1..Cardinality(hits) |-> lg[o[k]]] : o \in Orderings(hits)}
    IN {SubSeq(s, 1, Min(Len(s), MovementLimit)) : s \in {l \in lists : OrderedByCreatedAt(l)}}

\* one query observed from outside: filters and the list returned
GetStockMovementsCall(pid, mtype, start, end) ==
    /\ \E res \in StockMovementResults(ledger, pid, mtype, start, end) :
          last' = [op |-> "get_stock_movements", product_id |-> pid, movement_type |-> mtype,
                   start_date |-> start, end_date |-> end, result |-> res]
    /\ UNCHANGED <<products, ledger, id_is_pk, replay, tx>>
    /\ UNCHANGED salesVars
    /\ UNCHANGED orderVars
    /\ UNCHANGED scanVars

InitMovements ==
    /\ InitStockIdle
    /\ InitSales

NextMovements ==
    \/ \E day \in Days, q \in 1..MaxQty, mtype \in {"purchase", "sale"} :
          UpdateStockOn(day, "p1", q, mtype)
    \/ \E pid \in Products \cup {NoFilter}, mtype \in {"purchase", "sale", NoFilter},
          start \in Days \cup {NoDay}, end \in Days \cup {NoDay} :
          GetStockMovementsCall(pid, mtype, start, end)

SpecMovements == InitMovements /\ [][NextMovements]_vars

\* C24: the list a stock-movement query returns holds exactly the ledger
\* entries that match its filters, ordered by timestamp ascending (oldest
\* first).
C24_OldestFirst ==
    last.op = "get_stock_movements" =>
        /\ \A i, j \in 1..Len(last.result) :
              i < j => last.result[i].created_at <= last.result[j].created_at
        /\ \A i \in 1..Len(ledger) :
              MovementMatches(ledger[i], last.product_id, last.movement_type,
                              last.start_date, last.end_date)
                  => \E k \in 1..Len(last.result) : last.result[k] = ledger[i]

\* --------------------------------- InventoryService.receive_purchase_order
\* an element of received_items; keyed = FALSE: the dict has no
\* 'quantity_received' key
ReceivedItems == [product_id : Products, keyed : BOOLEAN, quantity_received : 1..MaxQty]
ReceivedLists == UNION {[1..n -> ReceivedItems] : n \in 0..2}
Orders == {"po1", "po2"}      \* po2 is an id no order carries
Ordered == {"p1"}             \* the products po1 has an item row for

\* the row update_stock reads for pid (a product has at most one row here)
PurchaseRow(db, pid) ==
    IF RowsOf(db, pid) = {} THEN "A" ELSE CHOOSE l \in RowsOf(db, pid) : TRUE

\* lines 252-270 for the items i..Len(items).  s holds the committed tables
\* (products, ledger, po) and `staged`, the quantity_received the session has
\* set but not committed (NULL: none).  update_stock works in the same session:
\* its commit at line 112 publishes the staged item row with the movement.
RECURSIVE ReceiveItems(_, _, _, _)
ReceiveItems(s, items, i, po_id) ==
    IF i > Len(items) THEN s
    ELSE LET item == items[i]
             pid == item.product_id
         IN IF pid \notin Ordered
            THEN ReceiveItems(s, items, i + 1, po_id)                \* poi is None
            ELSE IF ~item.keyed
            THEN [s EXCEPT !.staged = NULL, !.raised = TRUE]         \* KeyError, line 262
            ELSE LET out == UpdateStockOutcome(s.products, s.ledger, pid,
                                               item.quantity_received, "purchase",
                                               PurchaseRow(s.products, pid))
                     n == Len(out.ledger)
                 IN IF out.result
                    THEN ReceiveItems(
                           [products |-> out.products,
                            ledger |-> [out.ledger EXCEPT ![n].reference_id = po_id],
                            po |-> [s.po EXCEPT !.quantity_received = item.quantity_received],
                            staged |-> NULL, raised |-> FALSE],
                           items, i + 1, po_id)
                    ELSE ReceiveItems([s EXCEPT !.staged = item.quantity_received],
                                      items, i + 1, po_id)

\* the whole handler, lines 245-283
ReceiveOutcome(db, lg, order, po_id, items) ==
    LET start == [products |-> db, ledger |-> lg, po |-> order, staged |-> NULL, raised |-> FALSE]
    IN IF po_id # "po1" THEN [start EXCEPT !.raised = TRUE]            \* line 250
       ELSE LET s == ReceiveItems(start, items, 1, po_id)
            IN IF s.raised THEN s                                      \* lines 280-283
               ELSE [s EXCEPT !.po = [status |-> "delivered",
                                      quantity_received |->
                                          IF s.staged # NULL THEN s.staged
                                          ELSE s.po.quantity_received]]

ReceivePurchaseOrderCall(po_id, items) ==
    LET out == ReceiveOutcome(products, ledger, po, po_id, items)
    IN /\ Len(out.ledger) <= MaxLedger
       /\ products' = out.products
       /\ ledger' = out.ledger
       /\ po' = out.po
       /\ replay' = [k \in Products \X Locs |->
                        replay[k] + (out.products[k].current_stock - products[k].current_stock)]
       /\ last' = Call("receive_purchase_order", "-", NoLoc, NoLoc, Len(items), "-", ~out.raised)
       /\ UNCHANGED <<id_is_pk, tx>>
       /\ UNCHANGED salesVars
       /\ UNCHANGED scanVars

\* p1 stocked at A with any opening stock and cost price, the order not yet received
InitReceive ==
    /\ id_is_pk = TRUE
    /\ \E c \in CostPrices, sa \in 0..MaxStock : products = InitRows(c, sa, 0, TRUE, FALSE)
    /\ ledger = <<>>
    /\ replay = [k \in Products \X Locs |-> products[k].current_stock]
    /\ last = NoCall
    /\ tx = [p \in Procs |-> IdleTx]
    /\ InitSales

NextReceive ==
    \E po_id \in Orders, items \in ReceivedLists : ReceivePurchaseOrderCall(po_id, items)

SpecReceive == InitReceive /\ [][NextReceive]_vars

\* C25: a receive_purchase_order call that returns False has changed no
\* stock counter, committed no ledger entry and changed no quantity_received;
\* one that returns True leaves the order's status 'delivered'.
C25_ReceiveAllOrNothing ==
    [][last'.op = "receive_purchase_order" =>
        IF last'.result
        THEN po'.status = "delivered"
        ELSE /\ products' = products
             /\ ledger' = ledger
             /\ po'.quantity_received = po.quantity_received]_vars

\* ------------------------------------------------- sync observed from outside
\* delete_product, lines 53-60: the soft delete of the row found
DeleteProductCall(pid) ==
    /\ IF RowsOf(products, pid) = {}
       THEN /\ UNCHANGED products
            /\ last' = Call("delete_product", pid, NoLoc, NoLoc, 0, "-", FALSE)
       ELSE \E loc \in RowsOf(products, pid) :
               /\ products' = [products EXCEPT ![<<pid, loc>>].is_active = FALSE]
               /\ last' = Call("delete_product", pid, loc, NoLoc, 0, "-", TRUE)
    /\ UNCHANGED <<ledger, id_is_pk, replay, tx>>
    /\ UNCHANGED salesVars
    /\ UNCHANGED orderVars
    /\ UNCHANGED scanVars

\* one sync call: argument and return value are recorded
SyncInventoryCall(pid) ==
    /\ products' = SyncOutcome(products, pid).products
    /\ last' = Call("sync_inventory_across_locations", pid, NoLoc, NoLoc, 0, "-",
                    SyncOutcome(products, pid).result)
    /\ UNCHANGED <<ledger, id_is_pk, replay, tx>>
    /\ UNCHANGED salesVars
    /\ UNCHANGED orderVars
    /\ UNCHANGED scanVars

NextSync ==
    \/ \E pid \in Products : SyncInventoryCall(pid)
    \/ \E pid \in Products : DeleteProductCall(pid)

SpecSync == InitTransfer /\ [][NextSync]_vars

Numbered(row, number) == row @@ [transaction_number |-> number]

\* f"TXN-{today}-{count + 1:06d}", lines 26-27
TxnNumber(day, count) == <<"TXN", day, count + 1>>

\* f"RET-{original_transaction.transaction_number}", line 103
RetNumber(number) == <<"RET", number>>

NumbersIn(table) == {r.transaction_number : r \in BagToSet(table)}

\* create_transaction, lines 23-64, with the number it generates
CreateTransactionNumbered(date, method, amount, items) ==
    /\ sales' = sales (+) SetToBag({Numbered(SaleRow(date, FALSE, method, amount, items),
                                            TxnNumber(date, BagCardinality(sales)))})
    /\ lastgen' = NoDate
    /\ last' = [op |-> "create_transaction", result |-> TRUE]
    /\ UNCHANGED summaries
    /\ UNCHANGED <<products, ledger, id_is_pk, replay, tx>>
    /\ UNCHANGED orderVars
    /\ UNCHANGED scanVars

\* ------------------------------------------------ SalesService.process_return
\* an element of return_items; line_total in cents
ReturnItems == [product_id : Products, quantity : 1..MaxQty, line_total : {5000}]
ReturnLists == UNION {[1..n -> ReturnItems] : n \in 0..2}

\* return items stored with the quantities as passed
ReturnLinesUnsigned(items) ==
    {[product_id |-> items[i].product_id, quantity |-> items[i].quantity,
      line_total |-> -items[i].line_total] : i \in 1..Len(items)}

\* lines 121-133: the item rows of the return, quantity and line_total negated
ReturnLines(items) ==
    {[product_id |-> items[i].product_id, quantity |-> -items[i].quantity,
      line_total |-> -items[i].line_total] : i \in 1..Len(items)}

\* lines 98-100: subtotal plus 10% tax, in cents
ReturnTotal(items) ==
    LET subtotal == SumSeq([i \in 1..Len(items) |-> items[i].line_total])
    IN subtotal + subtotal \div 10

\* process_return, lines 89-142.  decimal: the line totals are Decimal, so
\* `return_subtotal * 0.1` raises TypeError.  Returns the new table and the
\* row created (found = FALSE for None).
ReturnOutcome(table, date, number, items, decimal) ==
    LET originals == {r \in BagToSet(table) : r.transaction_number = number}
        fail == [sales |-> table, found |-> FALSE, row |-> <<>>]
    IN IF originals = {} THEN fail                                   \* line 95
       ELSE IF decimal /\ items # <<>> THEN fail                     \* line 99 raises
       ELSE IF RetNumber(number) \in NumbersIn(table) THEN fail      \* flush, line 118, raises
       ELSE LET original == CHOOSE r \in originals : TRUE
                row == Numbered(SaleRow(date, TRUE, original.payment_method,
                                        -ReturnTotal(items), ReturnLines(items)),
                                RetNumber(number))
            IN [sales |-> table (+) SetToBag({row}), found |-> TRUE, row |-> row]

ProcessReturnCall(date, number, items, decimal) ==
    LET out == ReturnOutcome(sales, date, number, items, decimal)
    IN /\ sales' = out.sales
       /\ lastgen' = NoDate
       /\ last' = [op |-> "process_return", original |-> number, return_items |-> items,
                   result |-> out.found, row |-> out.row]
       /\ UNCHANGED summaries
       /\ UNCHANGED <<products, ledger, id_is_pk, replay, tx>>
       /\ UNCHANGED orderVars
       /\ UNCHANGED scanVars

InitReturns ==
    /\ InitStockIdle
    /\ InitSales

NextReturns ==
    \/ \E date \in Dates, method \in {"cash", "card"} :
          /\ BagCardinality(sales) < MaxSales
          /\ CreateTransactionNumbered(date, method, 5000, {[product_id |-> "p1", quantity |-> 1]})
    \/ \E day \in Dates, n \in 1..MaxSales, items \in ReturnLists, decimal \in BOOLEAN :
          /\ BagCardinality(sales) < MaxSales + 1
          /\ ProcessReturnCall("D2", TxnNumber(day, n - 1), items, decimal)

SpecReturns == InitReturns /\ [][NextReturns]_vars

\* C27: a process_return call, successful or not, leaves every product row
\* and the ledger as they were; a successful one adds exactly one transaction,
\* with is_return = True, the negated total of the returned lines plus tax and
\* one line per returned item with negated quantity and line total; a failed one
\* adds nothing.
C27_ReturnLeavesStockAlone ==
    [][last'.op = "process_return" =>
        /\ products' = products
        /\ ledger' = ledger
        /\ IF last'.result
           THEN LET items == last'.return_items
                    subtotal == SumSeq([i \in 1..Len(items) |-> items[i].line_total])
                IN /\ sales' = sales (+) SetToBag({last'.row})
                   /\ ~BagIn(last'.row, sales)
                   /\ last'.row.is_return
                   /\ last'.row.total_amount = -(subtotal + subtotal \div 10)
                   /\ last'.row.items =
                         {[product_id |-> items[i].product_id, quantity |-> -items[i].quantity,
                           line_total |-> -items[i].line_total] : i \in 1..Len(items)}
           ELSE sales' = sales]_vars

\* C27 witness: a return of two items has succeeded and its transaction is
\* stored next to the original sale.
C27_Witness ==
    /\ last.op = "process_return"
    /\ last.result
    /\ Len(last.return_items) = 2
    /\ BagIn(last.row, sales)
    /\ last.row.total_amount < 0
    /\ BagCardinality(sales) = 2

\* ------------------------------------ concurrent create_transaction sessions
\* lines 26-27: the session counts the committed rows and takes the day
CtCount(p, day, method, amount) ==
    /\ tx[p].pc = "idle"
    /\ tx' = [tx EXCEPT ![p] = [pc |-> "counted", op |-> "create_transaction",
                                number |-> TxnNumber(day, BagCardinality(sales)),
                                row |-> SaleRow(day, FALSE, method, amount, {}),
                                result |-> FALSE]]
    /\ UNCHANGED <<products, ledger, id_is_pk, replay, last>>
    /\ UNCHANGED salesVars
    /\ UNCHANGED orderVars
    /\ UNCHANGED scanVars

\* lines 45-62: INSERT at the flush, then the commit.  A number another
\* committed row carries violates the UNIQUE constraint: IntegrityError, which
\* create_transaction does not catch.
CtInsert(p) ==
    /\ tx[p].op = "create_transaction"
    /\ tx[p].pc = "counted"
    /\ IF tx[p].number \in NumbersIn(sales)
       THEN /\ tx' = [tx EXCEPT ![p].pc = "done"]
            /\ UNCHANGED <<sales, lastgen>>
       ELSE /\ sales' = sales (+) SetToBag({Numbered(tx[p].row, tx[p].number)})
            /\ lastgen' = NoDate
            /\ tx' = [tx EXCEPT ![p].pc = "done", ![p].result = TRUE]
    /\ UNCHANGED summaries
    /\ UNCHANGED <<products, ledger, id_is_pk, replay, last>>
    /\ UNCHANGED orderVars
    /\ UNCHANGED scanVars

InitNumbers ==
    /\ InitStockIdle
    /\ InitSales

NextNumbers ==
    \E p \in Procs :
        \/ \E day \in Dates, method \in {"cash", "card"}, amount \in Amounts :
              CtCount(p, day, method, amount)
        \/ CtInsert(p)

SpecNumbers == InitNumbers /\ [][NextNumbers]_vars

\* C28: when two concurrent create_transaction calls have both finished, both
\* succeeded, both transactions are stored and their numbers differ.
C28_BothStoredDistinctNumbers ==
    (\A p \in Procs : tx[p].pc = "done" /\ tx[p].op = "create_transaction") =>
        /\ \A p \in Procs : tx[p].result
        /\ BagCardinality(sales) = Cardinality(Procs)
        /\ Cardinality(NumbersIn(sales)) = Cardinality(Procs)

\* ------------------------------------------------ update_stock on bad input
\* C29: an update_stock call for a product id without a row, or with a
\* movement type other than purchase, adjustment, return, sale and waste
\* (transfer_in and transfer_out among them), returns False, adds no ledger
\* entry and changes no stock counter.
C29_BadInputNoSideEffect ==
    [][(/\ last'.op = "update_stock"
        /\ \/ RowsOf(products, last'.product_id) = {}
           \/ last'.movement_type \notin {"purchase", "adjustment", "return", "sale", "waste"})
       => /\ ~last'.result
          /\ ledger' = ledger
          /\ products' = products]_vars

\* a transfer type refused for a stocked product after an accepted movement
C29_Witness ==
    /\ last.op = "update_stock"
    /\ last.movement_type \in {"transfer_in", "transfer_out"}
    /\ RowsOf(products, last.product_id) # {}
    /\ ~last.result
    /\ Len(ledger) = 1

\* ------------------------------------------------------- BarcodeScanner
\* One thread calls start_scanning and stop_scanning one after the other; each
\* started thread runs _scan_loop.  A step of a thread is one read or write
\* of the scanner's attributes.  stop_scanning blocks at join(timeout=1): it
\* goes on when the joined thread has ended, or after one second with the
\* thread still alive (blocked in camera.read() or inside the callback).
Alive == {t \in Threads : loops[t] \notin {"unborn", "exited"}}
InLoop == {t \in Threads : loops[t] \in {"read", "check", "call"}}

\* start_scanning (lines 45-62); opened is the outcome of initialize_camera,
\* which stores the capture object before testing isOpened()
StartScanning(opened) ==
    /\ caller = "idle"
    /\ IF is_scanning
       THEN UNCHANGED scanVars                                       \* lines 47-49
       ELSE IF camera = NoCamera /\ ~opened
       THEN /\ camera' = "unopened"                                  \* lines 28-31, 51-53
            /\ UNCHANGED <<is_scanning, scan_callback, scan_thread, loops, caller, stopped, late>>
       ELSE \E t \in Threads :
               /\ loops[t] = "unborn"
               /\ \A u \in Threads : loops[u] = "unborn" => t <= u
               /\ camera' = IF camera = NoCamera THEN "opened" ELSE camera
               /\ scan_callback' = "callback"
               /\ is_scanning' = TRUE
               /\ scan_thread' = t
               /\ loops' = [loops EXCEPT ![t] = "test"]
               /\ stopped' = FALSE
               /\ UNCHANGED <<caller, late>>
    /\ UNCHANGED stockVars
    /\ UNCHANGED salesVars
    /\ UNCHANGED orderVars

\* stop_scanning up to the join (lines 66-68)
StopScanningBegin ==
    /\ caller = "idle"
    /\ is_scanning' = FALSE
    /\ caller' = "join"
    /\ UNCHANGED <<camera, scan_callback, scan_thread, loops, stopped, late>>
    /\ UNCHANGED stockVars
    /\ UNCHANGED salesVars
    /\ UNCHANGED orderVars

\* the rest of stop_scanning (lines 70-74)
StopScanningRelease ==
    /\ camera' = NoCamera
    /\ caller' = "idle"
    /\ stopped' = TRUE
    /\ UNCHANGED <<is_scanning, scan_callback, scan_thread, loops, late>>
    /\ UNCHANGED stockVars
    /\ UNCHANGED salesVars
    /\ UNCHANGED orderVars

\* join returns because there is no thread or the thread has ended
StopScanningJoined ==
    /\ caller = "join"
    /\ scan_thread \notin Alive
    /\ StopScanningRelease

\* join returns after its timeout, the thread still alive
StopScanningTimedOut ==
    /\ caller = "join"
    /\ scan_thread \in Alive
    /\ StopScanningRelease

ScanStep(t, pc) ==
    /\ loops' = [loops EXCEPT ![t] = pc]
    /\ UNCHANGED <<is_scanning, camera, scan_callback, scan_thread, caller, stopped>>
    /\ UNCHANGED stockVars
    /\ UNCHANGED salesVars
    /\ UNCHANGED orderVars

\* while self.is_scanning and self.camera (line 78)
ScanLoopTest(t) ==
    /\ loops[t] = "test"
    /\ ScanStep(t, IF is_scanning /\ camera # NoCamera THEN "read" ELSE "exited")
    /\ UNCHANGED late

\* camera.read() and pyzbar.decode (lines 80-89, 112-117): no camera raises
\* AttributeError, caught at line 115; an unopened camera returns no frame;
\* a frame holds one barcode or none
ScanLoopRead(t, found) ==
    /\ loops[t] = "read"
    /\ ScanStep(t, IF camera = "opened" /\ found THEN "check" ELSE "test")
    /\ UNCHANGED late

\* if not self.is_scanning: break (lines 92-93)
ScanLoopCheck(t) ==
    /\ loops[t] = "check"
    /\ ScanStep(t, IF is_scanning THEN "call" ELSE "test")
    /\ UNCHANGED late

\* if self.scan_callback: self.scan_callback(...) (lines 105-110)
ScanLoopCall(t) ==
    /\ loops[t] = "call"
    /\ ScanStep(t, "test")
    /\ late' = (late \/ (scan_callback # NoCallback /\ stopped))

InitScan == InitStockIdle /\ InitSales

NextScanner ==
    \/ \E opened \in BOOLEAN : StartScanning(opened)
    \/ StopScanningBegin
    \/ StopScanningJoined
    \/ StopScanningTimedOut
    \/ \E t \in Threads :
          \/ ScanLoopTest(t)
          \/ \E found \in BOOLEAN : ScanLoopRead(t, found)
          \/ ScanLoopCheck(t)
          \/ ScanLoopCall(t)

SpecScanner == InitScan /\ [][NextScanner]_vars

\* C30: at every moment at most one thread is inside the scan loop, and no
\* callback is delivered between the return of stop_scanning and the next
\* start_scanning, whatever the order of the calls and the steps of the threads.
C30_OneLoopNoLateCallback ==
    /\ Cardinality(InLoop) <= 1
    /\ ~late

====
